---- MODULE Spec2Model ----
(***************************************************************************)
(* Model of the SQLOps table store (src/sql_ops.py) and of the one place   *)
(* of the ingestion script (src/shipgirls.py) that creates tables through  *)
(* the store's connection without going through create_table.              *)
(*                                                                         *)
(* The backing engine is modelled by what it does to the statements the    *)
(* store sends: a table is an ordered list of columns and a list of rows   *)
(* in rowid order; values are stored after column affinity is applied.     *)
(***************************************************************************)
EXTENDS Integers, Sequences, FiniteSets, TLC

\* ------------------------------------------------------------------ bounds
MaxRows == 2      \* rows a table may hold before add_row is no longer called
MaxOrdinal == 2   \* largest explicit ordinal a caller passes
MaxDays == 2      \* shortest rotation windows the clock runs through

\* ------------------------------------------------------------------ values
\* A scalar is a record [k, n]: k is the kind, n the payload.
\*   int n        the integer n (Python bool counts as int)
\*   real n       the float n/2 (so real 2 is 1.0 and real 3 is 1.5)
\*   text n       a non-numeric string: 0 is '', 1 is 'a', 2 is 'b'
\*   inttext n    the string holding the decimal numeral of the integer n
\*   realtext n   the string holding the numeral of the float n/2
\*   null         None / NULL
\*   other        a Python object the engine cannot bind (list, numpy.int64)
IntV(n)   == [k |-> "int", n |-> n]
RealV(n)  == [k |-> "real", n |-> n]
TextV(n)  == [k |-> "text", n |-> n]
NullV     == [k |-> "null", n |-> 0]
OtherV    == [k |-> "other", n |-> 0]
EmptyText == TextV(0)

Names == {"dogs", "table"}

\* The table the callers of the model write rows to.
RowTables == {"dogs"}

NoTable == [cols |-> <<>>, rows |-> <<>>]
NoSeed  == 0
NoCall  == [op |-> "none", table |-> "", err |-> "none", reported |-> FALSE,
            ret |-> NullV, shape |-> "", drop |-> FALSE, ordinal |-> FALSE]

VARIABLES
    tables,     \* table name -> [cols, rows]: the live schema and data
    ordinals,   \* self.__ordinals: table name -> seed (NoSeed: no entry)
    call,       \* the last call made on the store: operation, table, outcome
    store,      \* the store object: configuration, window start, connection
    disk,       \* file name -> database, for the files the store has left
    now,        \* time.time(), in seconds
    events      \* what the last call did to connections, in program order

filevars == <<store, disk, now, events>>

vars == <<tables, ordinals, call, store, disk, now, events>>

\* ------------------------------------------------------- sequence helpers
Last(s) == s[Len(s)]

Contains(s, x) == \E i \in 1..Len(s) : s[i] = x

Remove(s, i) == [j \in 1..(Len(s) - 1) |-> IF j < i THEN s[j] ELSE s[j + 1]]

InsertAt(s, i, x) ==
    [j \in 1..(Len(s) + 1) |-> IF j < i THEN s[j] ELSE IF j = i THEN x ELSE s[j - 1]]

\* ---------------------------------------------------------- the engine
IsKeyword(name) == name \in {"table", "index"}

Affinity(ty) ==
    CASE ty \in {"integer", "INTEGER"} -> "INTEGER"
      [] ty \in {"text", "TEXT"}       -> "TEXT"
      [] ty \in {"real", "REAL"}       -> "REAL"
      [] OTHER                         -> "NUMERIC"

Coerce(aff, v) ==
    CASE aff = "TEXT" ->
            IF v.k = "int" THEN [k |-> "inttext", n |-> v.n]
            ELSE IF v.k = "real" THEN [k |-> "realtext", n |-> v.n]
            ELSE v
      [] aff = "REAL" ->
            IF v.k \in {"int", "inttext"} THEN RealV(2 * v.n)
            ELSE IF v.k = "realtext" THEN RealV(v.n)
            ELSE v
      [] OTHER ->
            IF v.k = "inttext" THEN IntV(v.n)
            ELSE IF v.k \in {"real", "realtext"} /\ v.n % 2 = 0 THEN IntV(v.n \div 2)
            ELSE IF v.k = "realtext" THEN RealV(v.n)
            ELSE v

\* What PRAGMA table_info reports for a declared type.  Engines from 3.37 on
\* report the standard type names in capitals (upper), older ones as declared.
\* The build is not part of the store's state: a caller that depends on the
\* reported text is checked against both.
EngineBuilds == BOOLEAN

TableInfoType(upper, ty) ==
    IF upper
    THEN CASE ty = "integer" -> "INTEGER"
           [] ty = "text"    -> "TEXT"
           [] ty = "real"    -> "REAL"
           [] OTHER          -> ty
    ELSE ty

Exists(db, t) == Len(db[t].cols) > 0

ColIndex(tb, name) ==
    IF \E i \in 1..Len(tb.cols) : tb.cols[i].name = name
    THEN CHOOSE i \in 1..Len(tb.cols) : tb.cols[i].name = name
    ELSE 0

PkIndex(tb) ==
    IF \E i \in 1..Len(tb.cols) : tb.cols[i].pk
    THEN CHOOSE i \in 1..Len(tb.cols) : tb.cols[i].pk
    ELSE 0

\* An INTEGER PRIMARY KEY column is the rowid itself.
IsRowidAlias(tb, i) == i > 0 /\ tb.cols[i].pk /\ Affinity(tb.cols[i].type) = "INTEGER"

\* Collation of stored values: NULL, then numbers, then text.
OrderKey(v) ==
    CASE v.k = "null" -> 0
      [] v.k = "int"  -> 1000 + 2 * v.n
      [] v.k = "real" -> 1000 + v.n
      [] OTHER        -> 100000 + v.n

RECURSIVE SortedInsertPos(_, _, _, _)
SortedInsertPos(rows, c, v, i) ==
    IF i > Len(rows) THEN i
    ELSE IF OrderKey(rows[i][c]) > OrderKey(v) THEN i
    ELSE SortedInsertPos(rows, c, v, i + 1)

RECURSIVE SortValues(_)
SortValues(s) ==
    IF Len(s) <= 1 THEN s
    ELSE LET rest == SortValues(Remove(s, Len(s)))
             x == Last(s)
             pos == CHOOSE p \in 1..(Len(rest) + 1) :
                       /\ \A j \in 1..(p - 1) : OrderKey(rest[j]) <= OrderKey(x)
                       /\ \A j \in p..Len(rest) : OrderKey(rest[j]) > OrderKey(x)
         IN InsertAt(rest, pos, x)

RECURSIVE DeleteWhere(_, _, _)
DeleteWhere(rows, c, v) ==
    IF Len(rows) = 0 THEN <<>>
    ELSE LET rest == DeleteWhere(Remove(rows, Len(rows)), c, v)
         IN IF Last(rows)[c] = v THEN rest ELSE Append(rest, Last(rows))

MaxRowid(tb, c) ==
    IF Len(tb.rows) = 0 THEN 0 ELSE Last(tb.rows)[c].n

\* INSERT OR REPLACE of one full row of bound values.
InsertOrReplace(tb, vals) ==
    LET stored == [i \in 1..Len(tb.cols) |-> Coerce(Affinity(tb.cols[i].type), vals[i])]
        pk == PkIndex(tb)
    IN IF \E i \in 1..Len(vals) : vals[i].k = "other"
       THEN [tb |-> tb, err |-> "ProgrammingError"]
       ELSE IF pk = 0
       THEN [tb |-> [tb EXCEPT !.rows = Append(@, stored)], err |-> "none"]
       ELSE IF IsRowidAlias(tb, pk)
       THEN IF stored[pk].k = "null"
            THEN LET row == [stored EXCEPT ![pk] = IntV(MaxRowid(tb, pk) + 1)]
                 IN [tb |-> [tb EXCEPT !.rows = Append(@, row)], err |-> "none"]
            ELSE IF stored[pk].k # "int"
            THEN [tb |-> tb, err |-> "IntegrityError"]
            ELSE LET kept == DeleteWhere(tb.rows, pk, stored[pk])
                     pos == SortedInsertPos(kept, pk, stored[pk], 1)
                 IN [tb |-> [tb EXCEPT !.rows = InsertAt(kept, pos, stored)],
                     err |-> "none"]
       ELSE LET kept == IF stored[pk].k = "null" THEN tb.rows
                        ELSE DeleteWhere(tb.rows, pk, stored[pk])
            IN [tb |-> [tb EXCEPT !.rows = Append(kept, stored)], err |-> "none"]

\* ALTER TABLE ... ADD COLUMN: rows already stored read NULL in the new column.
AlterAddColumn(tb, name, ty) ==
    [cols |-> Append(tb.cols, [name |-> name, type |-> ty, pk |-> FALSE]),
     rows |-> [i \in 1..Len(tb.rows) |-> Append(tb.rows[i], NullV)]]

\* SELECT <col> FROM t with no ORDER BY: a primary key that is not the rowid
\* is read from its automatic index, in key order; anything else in rowid order.
SelectColumn(tb, name) ==
    LET c == ColIndex(tb, name)
        vals == [i \in 1..Len(tb.rows) |-> tb.rows[i][c]]
    IN IF tb.cols[c].pk /\ ~IsRowidAlias(tb, c) THEN SortValues(vals) ELSE vals

\* ------------------------------------------------- schema introspection
valid_types == {"text", "integer", "numeric", "real", "none"}

\* check_types: a str argument is split into words first; every type the
\* store passes is a single word, so it is checked as a one-element list.
check_types(types) == \A i \in 1..Len(types) : types[i] \in valid_types

get_tables(db) == {t \in Names : Exists(db, t)}

table_exists(db, t) == t \in get_tables(db)

get_column_names(db, t) == [i \in 1..Len(db[t].cols) |-> db[t].cols[i].name]

get_column_types(upper, db, t) ==
    [i \in 1..Len(db[t].cols) |-> TableInfoType(upper, db[t].cols[i].type)]

column_exists(db, name, t) == Contains(get_column_names(db, t), name)

\* ------------------------------------------------------------ drop_table
\* The guard asks table_exists() with its default argument, the name "table".
drop_table(db, t) ==
    IF table_exists(db, "table") THEN [db EXCEPT ![t] = NoTable] ELSE db

\* ------------------------------------------------------------ add_column
add_column(db, name, sql_type, key, t) ==
    IF ~check_types(<<sql_type>>) THEN [db |-> db, err |-> "ValueError"]
    ELSE IF column_exists(db, name, t) THEN [db |-> db, err |-> "Exception"]
    ELSE IF ~Exists(db, t) \/ key THEN [db |-> db, err |-> "OperationalError"]
    ELSE [db |-> [db EXCEPT ![t] = AlterAddColumn(@, name, sql_type)],
          err |-> "none"]

\* ---------------------------------------------------------- create_table
\* The loop of lines 268-271 over zip(col_list, type_list).
RECURSIVE AddMissingColumns(_, _, _, _, _, _)
AddMissingColumns(db, t, col_list, type_list, key_name, i) ==
    IF i > Len(col_list) \/ i > Len(type_list) THEN [db |-> db, err |-> "none"]
    ELSE IF column_exists(db, col_list[i], t)
    THEN AddMissingColumns(db, t, col_list, type_list, key_name, i + 1)
    ELSE LET r == add_column(db, col_list[i], type_list[i],
                             col_list[i] = key_name, t)
         IN IF r.err # "none" THEN r
            ELSE AddMissingColumns(r.db, t, col_list, type_list, key_name, i + 1)

\* What the loop of lines 283-291 appends after each column definition.
Terminators(new_col_list, col_list, key_name) ==
    [i \in 1..Len(new_col_list) |->
        IF new_col_list[i] = key_name THEN " PRIMARY KEY, "
        ELSE IF new_col_list[i] = Last(col_list) THEN ");"
        ELSE ", "]

\* The CREATE TABLE text is one complete statement when the only ");" is at
\* its end and the table name is not a keyword (the name is not quoted).
CreateStatementParses(t, terms) ==
    /\ ~IsKeyword(t)
    /\ Len(terms) > 0
    /\ Last(terms) = ");"
    /\ \A i \in 1..(Len(terms) - 1) : terms[i] # ");"

\* Lines 265-293: what create_table does once the existence check has passed.
create_table_body(db, ords, t, col_list, type_list, drop, key_name, ordinal) ==
    LET db1 == IF drop THEN drop_table(db, t) ELSE db
    IN IF table_exists(db1, t)
       THEN LET r == AddMissingColumns(db1, t, col_list, type_list, key_name, 1)
            IN [db |-> r.db, ords |-> ords, err |-> r.err]
       ELSE IF ~ordinal
       THEN \* new_col_list is bound only under "if ordinal"
            [db |-> db1, ords |-> ords, err |-> "UnboundLocalError"]
       ELSE
       LET has == Contains(col_list, "ordinal")
           new_col_list  == IF has THEN col_list ELSE <<"ordinal">> \o col_list
           new_type_list == IF has THEN type_list ELSE <<"integer">> \o type_list
           ords1 == [ords EXCEPT ![t] = 1]
           terms == Terminators(new_col_list, col_list, "ordinal")
           created == [cols |-> [i \in 1..Len(new_col_list) |->
                                    [name |-> new_col_list[i],
                                     type |-> new_type_list[i],
                                     pk   |-> new_col_list[i] = "ordinal"]],
                       rows |-> <<>>]
       IN IF CreateStatementParses(t, terms)
          THEN [db |-> [db1 EXCEPT ![t] = created], ords |-> ords1, err |-> "none"]
          ELSE [db |-> db1, ords |-> ords1, err |-> "OperationalError"]

\* A check that never finds the table already present.
already_present_unchecked(db, t, drop) ==
    FALSE

\* Lines 263-264: "if not drop and self.table_exists(name)".
already_present(db, t, drop) ==
    ~drop /\ table_exists(db, t)

\* create_table raising "already present" only after the columns were added.
create_table_late_raise(db, ords, t, col_list, type_list, drop, key_name, ordinal) ==
    LET r == create_table_body(db, ords, t, col_list, type_list, drop,
                               key_name, ordinal)
    IN IF already_present(db, t, drop)
       THEN [db |-> r.db, ords |-> r.ords, err |-> "Exception"]
       ELSE r

create_table(db, ords, t, col_list, type_list, drop, key_name, ordinal) ==
    IF already_present(db, t, drop)
    THEN [db |-> db, ords |-> ords, err |-> "Exception"]
    ELSE create_table_body(db, ords, t, col_list, type_list, drop, key_name, ordinal)

\* ------------------------------------------------------ get_next_ordinal
PyAddOne(v) ==
    CASE v.k = "int"  -> [err |-> "none", val |-> IntV(v.n + 1)]
      [] v.k = "real" -> [err |-> "none", val |-> RealV(v.n + 2)]
      [] OTHER        -> [err |-> "TypeError", val |-> NullV]

get_next_ordinal(db, ords, t) ==
    IF column_exists(db, "ordinal", t)
    THEN LET current_id == SelectColumn(db[t], "ordinal")
         IN IF Len(current_id) = 0
            THEN IF ords[t] = NoSeed THEN [err |-> "KeyError", val |-> NullV]
                 ELSE [err |-> "none", val |-> IntV(ords[t])]
            ELSE PyAddOne(Last(current_id))
    ELSE [err |-> "Exception", val |-> NullV]

\* --------------------------------------------------------------- add_row
\* A mapping is a sequence of [key, val] pairs in the dict's insertion order.
Pair(k, v) == [key |-> k, val |-> v]

HasKey(m, k) == \E i \in 1..Len(m) : m[i].key = k

Get(m, k) == m[CHOOSE i \in 1..Len(m) : m[i].key = k].val

Put(m, k, v) ==
    IF HasKey(m, k)
    THEN [i \in 1..Len(m) |-> IF m[i].key = k THEN Pair(k, v) ELSE m[i]]
    ELSE Append(m, Pair(k, v))

validate_row_data_dict(db, data, t) ==
    SelectSeq([i \in 1..Len(data) |-> data[i].key],
              LAMBDA x : ~column_exists(db, x, t))

\* The isinstance chain of lines 445-452 (and 475-482).
InferType(v) ==
    CASE v.k = "int"  -> "integer"
      [] v.k = "real" -> "real"
      [] v.k \in {"text", "inttext", "realtext"} -> "text"
      [] OTHER        -> "NULL"

RECURSIVE AddInferredColumns(_, _, _, _, _)
AddInferredColumns(db, t, row_data, extra, i) ==
    IF i > Len(extra) THEN [db |-> db, err |-> "none"]
    ELSE LET r == add_column(db, extra[i], InferType(Get(row_data, extra[i])),
                             FALSE, t)
         IN IF r.err # "none" THEN r
            ELSE AddInferredColumns(r.db, t, row_data, extra, i + 1)

\* Lines 455-457: every column the mapping lacks is set to ''.
RECURSIVE FillMissing(_, _, _)
FillMissing(names, row_data, i) ==
    IF i > Len(names) THEN row_data
    ELSE FillMissing(names,
                     IF HasKey(row_data, names[i]) THEN row_data
                     ELSE Put(row_data, names[i], EmptyText),
                     i + 1)

\* cursor.execute(sql_call, self.row) of the statement __sql_gen_dict builds:
\* one named parameter per column.  No key of the model contains '.', so the
\* renaming of lines 373-376 does not apply.
ExecuteDict(tb, names, row) ==
    IF \E i \in 1..Len(names) : ~HasKey(row, names[i])
    THEN [tb |-> tb, err |-> "ProgrammingError"]
    ELSE InsertOrReplace(tb, [i \in 1..Len(names) |-> Get(row, names[i])])

add_row_dict(db, ords, row_data, t) ==
    LET is_ordinal == column_exists(db, "ordinal", t)
        next == get_next_ordinal(db, ords, t)
        assign == is_ordinal /\ ~HasKey(row_data, "ordinal")
        data1 == IF assign /\ next.err = "none"
                 THEN Put(row_data, "ordinal", next.val) ELSE row_data
        extra == validate_row_data_dict(db, data1, t)
        added == AddInferredColumns(db, t, data1, extra, 1)
        names == get_column_names(added.db, t)
        data2 == IF is_ordinal THEN FillMissing(names, data1, 1) ELSE data1
        done  == ExecuteDict(added.db[t], names, data2)
    IN IF assign /\ next.err # "none"
       THEN [db |-> db, err |-> next.err, reported |-> FALSE, after |-> row_data]
       ELSE IF added.err # "none"
       THEN [db |-> added.db, err |-> added.err, reported |-> FALSE, after |-> data1]
       ELSE [db |-> [added.db EXCEPT ![t] = done.tb], err |-> "none",
             reported |-> done.err # "none", after |-> data2]

\* Python's == between two scalars (1 == 1.0 holds).
PyEq(v, w) ==
    \/ v = w
    \/ /\ v.k = "int" /\ w.k = "real" /\ 2 * v.n = w.n
    \/ /\ v.k = "real" /\ w.k = "int" /\ v.n = 2 * w.n

\* __sql_gen_list, one value: written bare into the statement when the
\* reported column type is one of the four listed, inside double quotes
\* otherwise.  A bare string is read by the engine as a column name.
Literal(reported_type, v) ==
    IF reported_type \in {"integer", "numeric", "real", "none"}
    THEN CASE v.k \in {"int", "real"} -> [ok |-> TRUE, val |-> v]
           [] v.k = "inttext"         -> [ok |-> TRUE, val |-> IntV(v.n)]
           [] v.k = "realtext"        -> [ok |-> TRUE, val |-> RealV(v.n)]
           [] OTHER                   -> [ok |-> FALSE, val |-> NullV]
    ELSE CASE v.k = "int"   -> [ok |-> TRUE, val |-> [k |-> "inttext", n |-> v.n]]
           [] v.k = "real"  -> [ok |-> TRUE, val |-> [k |-> "realtext", n |-> v.n]]
           [] v.k = "null"  -> [ok |-> TRUE, val |-> TextV(9)]
           [] v.k = "other" -> [ok |-> TRUE, val |-> TextV(8)]
           [] OTHER         -> [ok |-> TRUE, val |-> v]

\* The statement ends at the first value equal to data[-1] (line 394).
RECURSIVE FirstEqualToLast(_, _)
FirstEqualToLast(data, i) ==
    IF PyEq(data[i], Last(data)) THEN i ELSE FirstEqualToLast(data, i + 1)

add_row_list(upper, db, ords, row_data, t) ==
    LET is_ordinal == column_exists(db, "ordinal", t)
        names == get_column_names(db, t)
        next == get_next_ordinal(db, ords, t)
        assign == is_ordinal /\ Len(row_data) # Len(names)
        data == IF assign /\ next.err = "none"
                THEN <<next.val>> \o row_data ELSE row_data
        table_types == get_column_types(upper, db, t)
        n == FirstEqualToLast(data, 1)
        lits == [i \in 1..n |-> Literal(table_types[i], data[i])]
        done == InsertOrReplace(db[t], [i \in 1..n |-> lits[i].val])
    IN IF assign /\ next.err # "none"
       THEN [db |-> db, err |-> next.err, reported |-> FALSE, after |-> row_data]
       ELSE IF Len(data) > Len(table_types)
       THEN [db |-> db, err |-> "IndexError", reported |-> FALSE, after |-> data]
       ELSE IF n # Len(names) \/ \E i \in 1..n : ~lits[i].ok
       THEN [db |-> db, err |-> "OperationalError", reported |-> FALSE, after |-> data]
       ELSE [db |-> [db EXCEPT ![t] = done.tb], err |-> done.err,
             reported |-> FALSE, after |-> data]

\* cursor.executemany: the tuples are applied one by one; the first failure
\* raises and leaves the earlier tuples applied.
RECURSIVE ExecuteMany(_, _, _)
ExecuteMany(tb, batch, i) ==
    IF i > Len(batch) THEN [tb |-> tb, err |-> "none"]
    ELSE IF Len(batch[i]) # Len(tb.cols) THEN [tb |-> tb, err |-> "ProgrammingError"]
    ELSE LET r == InsertOrReplace(tb, batch[i])
         IN IF r.err # "none" THEN r ELSE ExecuteMany(r.tb, batch, i + 1)

\* __sql_gen_tuple joins the column names without quoting them.
add_row_batch(db, ords, row_data, t) ==
    LET names == get_column_names(db, t)
        done == ExecuteMany(db[t], row_data, 1)
    IN IF Len(names) = 0 \/ \E i \in 1..Len(names) : IsKeyword(names[i])
       THEN [db |-> db, err |-> "OperationalError", reported |-> FALSE,
             after |-> row_data]
       ELSE [db |-> [db EXCEPT ![t] = done.tb], err |-> done.err,
             reported |-> FALSE, after |-> row_data]

\* add_row: rotate() comes first and does nothing on a store whose rotation
\* interval is 0; then the branch on the shape of row_data.
add_row(upper, db, ords, shape, row_data, t) ==
    CASE shape = "dict"  -> add_row_dict(db, ords, row_data, t)
      [] shape = "list"  -> add_row_list(upper, db, ords, row_data, t)
      [] shape = "batch" -> add_row_batch(db, ords, row_data, t)
      [] OTHER -> [db |-> db, err |-> "TypeError", reported |-> FALSE,
                   after |-> row_data]

\* ------------------------------------------------------------- the store
\* A file name: the text the caller gave, the window stamps appended to it as
\* '_<stamp>', and the number of '.db' suffixes appended.
FileName(base) == [base |-> base, stamp |-> <<>>, ext |-> 0]

Memory == FileName(":memory:")

\* filename + '.db'
WithDb(p) == [p EXCEPT !.ext = @ + 1]

\* filename + '_{}.db'.format(t)
Stamped(p, t) == [p EXCEPT !.stamp = Append(@, t), !.ext = @ + 1]

EmptyDb == [t \in Names |-> NoTable]

NoFiles == [p \in {} |-> EmptyDb]

\* sqlite3.connect(p): the database in the file p, empty when p is new.
Connect(files, p) ==
    IF p # Memory /\ p \in DOMAIN files THEN files[p] ELSE EmptyDb

\* No store object (start_time <<>>: the attribute is not set).
NoStore ==
    [made |-> FALSE, base_filename |-> Memory, rotation_interval |-> 0,
     start_time |-> <<>>, database |-> Memory, row_factory |-> FALSE]

\* range(86400, 1209600)
RangeStart == 86400
RangeStop  == 1209600

\* __init__; clock is what time.time() returns.
init(filename, db_rotation_time, row_factory, clock) ==
    LET made == [NoStore EXCEPT !.made = TRUE, !.base_filename = filename,
                                !.rotation_interval = db_rotation_time,
                                !.row_factory = row_factory]
    IN IF ~(db_rotation_time >= RangeStart /\ db_rotation_time < RangeStop)
          /\ db_rotation_time # 0
       THEN [err |-> "ValueError", store |-> NoStore]
       ELSE IF filename # Memory /\ db_rotation_time # 0
       THEN [err |-> "none",
             store |-> [made EXCEPT !.start_time = <<clock>>,
                                    !.database = Stamped(filename, clock)]]
       ELSE IF filename # Memory /\ db_rotation_time # 0
       THEN \* lines 47-50: the condition of the branch just not taken
            [err |-> "ValueError", store |-> NoStore]
       ELSE [err |-> "none",
             store |-> [made EXCEPT !.database =
                           IF filename # Memory THEN WithDb(filename)
                           ELSE filename]]

\* ---------------------------------------------------------------- rotate
check_time(st, clock) == clock >= st.start_time[1] + st.rotation_interval

\* The pk flags PRAGMA table_info reports for the columns of that name.
column_is_pk(db, column_name, t) ==
    LET flags == [i \in 1..Len(db[t].cols) |-> IF db[t].cols[i].pk THEN 1 ELSE 0]
        at == SelectSeq([i \in 1..Len(db[t].cols) |-> i],
                        LAMBDA i : db[t].cols[i].name = column_name)
    IN [j \in 1..Len(at) |-> flags[at[j]]]

\* The filter keeps a name when column_is_pk's list is truthy, i.e. non-empty.
\* "" stands for the [] returned when the table has no columns.
get_pk_name(db, t) ==
    LET value == SelectSeq(get_column_names(db, t),
                           LAMBDA x : column_is_pk(db, x, t) # <<>>)
    IN IF value # <<>> THEN value[1] ELSE ""

Event(of, op, p) == [of |-> of, op |-> op, path |-> p]

\* The loop of lines 543-548 over the tables still to do.  Each pass touches
\* only its own table of the new file and its own seed, so the order in which
\* get_tables lists them does not change what the loop leaves.  A seed is kept
\* as the integer get_next_ordinal returned.
RECURSIVE RecreateTables(_, _, _, _, _, _)
RecreateTables(upper, db, ords, tmp, tmp_ords, todo) ==
    IF todo = {} THEN [err |-> "none", ords |-> ords, tmp |-> tmp]
    ELSE LET t == CHOOSE x \in todo : TRUE
             c == create_table(tmp, tmp_ords, t, get_column_names(db, t),
                               get_column_types(upper, db, t), FALSE,
                               get_pk_name(db, t), FALSE)
             n == get_next_ordinal(db, ords, t)
         IN IF c.err # "none" THEN [err |-> c.err, ords |-> ords, tmp |-> c.db]
            ELSE IF n.err # "none"
            THEN [err |-> n.err, ords |-> ords, tmp |-> c.db]
            ELSE RecreateTables(upper, db, [ords EXCEPT ![t] = n.val.n],
                                c.db, c.ords, todo \ {t})

\* The new connection opened before the old one is closed.
rotate_switch_open_first(st, filename, new_time) ==
    [store  |-> [st EXCEPT !.start_time = <<new_time>>, !.database = filename],
     events |-> << Event("self", "connect", filename),
                   Event("self", "commit", st.database),
                   Event("self", "close", st.database) >>]

\* Lines 552-556: commit and close the old file, move the window, connect.
rotate_switch(st, filename, new_time) ==
    [store  |-> [st EXCEPT !.start_time = <<new_time>>, !.database = filename],
     events |-> << Event("self", "commit", st.database),
                   Event("self", "close", st.database),
                   Event("self", "connect", filename) >>]

rotate(upper, st, db, ords, files, clock) ==
    LET same == [err |-> "none", store |-> st, db |-> db, ords |-> ords,
                 disk |-> files, events |-> <<>>]
    IN IF st.rotation_interval = 0 THEN same
       ELSE IF st.start_time = <<>>
       THEN [same EXCEPT !.err = "AttributeError"]
       ELSE IF ~check_time(st, clock) THEN same
       ELSE
       LET new_time == st.start_time[1] + st.rotation_interval
           filename == Stamped(st.base_filename, new_time)
           tmp_database == init(filename, 0, FALSE, clock).store
           tmp_db == Connect(files, tmp_database.database)
           opened == << Event("tmp", "connect", tmp_database.database) >>
           loop == RecreateTables(upper, db, ords, tmp_db,
                                  [t \in Names |-> NoSeed], get_tables(db))
           files1 == (tmp_database.database :> loop.tmp) @@ files
           files2 == (st.database :> db) @@ files1
           sw == rotate_switch(st, filename, new_time)
       IN IF loop.err # "none"
          THEN [err |-> loop.err, store |-> st, db |-> db, ords |-> loop.ords,
                disk |-> files1, events |-> opened]
          ELSE [err |-> "none", store |-> sw.store,
                db |-> Connect(files2, filename), ords |-> loop.ords,
                disk |-> files2,
                events |-> opened
                           \o << Event("tmp", "commit", tmp_database.database),
                                 Event("tmp", "close", tmp_database.database) >>
                           \o sw.events]

\* ------------------------------------------------------------ export_csv
\* The text csv.writer writes for a value.
CsvField(v) ==
    CASE v.k = "int"  -> [k |-> "inttext", n |-> v.n]
      [] v.k = "real" -> [k |-> "realtext", n |-> v.n]
      [] v.k = "null" -> EmptyText
      [] OTHER        -> v

\* The WHERE clauses the callers of the model pass ('' is no clause).
Filters == {"", "ordinal > 1"}

\* The engine's comparison "ordinal > 1" on a stored value.
GreaterThanOne(v) ==
    CASE v.k = "int"  -> v.n > 1
      [] v.k = "real" -> v.n > 2
      [] v.k = "null" -> FALSE
      [] OTHER        -> TRUE

\* select_rows('*', sql_filter, table_name=t): rows in rowid order.
select_rows(db, sql_filter, t) ==
    IF IsKeyword(t) \/ ~Exists(db, t)
       \/ (sql_filter # "" /\ ~column_exists(db, "ordinal", t))
    THEN [err |-> "OperationalError", rows |-> <<>>]
    ELSE [err |-> "none",
          rows |-> IF sql_filter = "" THEN db[t].rows
                   ELSE SelectSeq(db[t].rows,
                            LAMBDA r : GreaterThanOne(r[ColIndex(db[t], "ordinal")]))]

\* The cursor was made in __init__, so the rows it returns have keys() only
\* when the store was constructed with row_factory set.
export_csv(st, db, sql_filter, t) ==
    LET sel == select_rows(db, sql_filter, t)
    IN IF sel.err # "none"
       THEN [err |-> sel.err, opened |-> FALSE, lines |-> <<>>]
       ELSE IF Len(sel.rows) = 0 \/ ~st.row_factory
       THEN \* record.keys() on None, or on a tuple
            [err |-> "AttributeError", opened |-> TRUE, lines |-> <<>>]
       ELSE [err |-> "none", opened |-> TRUE,
             lines |-> << get_column_names(db, t) >>
                       \o [i \in 1..Len(sel.rows) |->
                              [j \in 1..Len(sel.rows[i]) |-> CsvField(sel.rows[i][j])]]]

\* --------------------------------------------------------- specification
CreateInputs ==
    { [cols |-> <<"name">>,            types |-> <<"text">>],
      [cols |-> <<"ordinal", "name">>, types |-> <<"numeric", "text">>],
      [cols |-> <<"name", "ordinal">>, types |-> <<"text", "integer">>] }

KeyNames == {"", "ordinal"}

\* Frames written by to_sql: the rows that remain once the header row
\* (index 0) has been deleted.
Frames == { << <<IntV(1), TextV(1)>> >> }

\* SQLOps(): the in-memory store without rotation, at time 0.
Init ==
    /\ tables = [t \in Names |-> NoTable]
    /\ ordinals = [t \in Names |-> NoSeed]
    /\ call = NoCall
    /\ store = init(Memory, 0, FALSE, 0).store
    /\ disk = NoFiles
    /\ now = 0
    /\ events = <<>>

\* shipgirls.import_ships: DataFrame.to_sql(name, db.database) followed by the
\* DELETE of the row whose "index" is 0.
ToSql ==
    \E t \in Names, frame \in Frames :
        /\ IF Exists(tables, t)
           THEN /\ tables' = tables
                /\ call' = [NoCall EXCEPT !.op = "to_sql", !.table = t,
                                          !.err = "ValueError"]
           ELSE /\ tables' = [tables EXCEPT ![t] =
                       [cols |-> << [name |-> "index", type |-> "INTEGER", pk |-> FALSE],
                                    [name |-> "name", type |-> "TEXT", pk |-> FALSE] >>,
                        rows |-> frame]]
                /\ call' = [NoCall EXCEPT !.op = "to_sql", !.table = t]
        /\ UNCHANGED ordinals
        /\ UNCHANGED filevars

CreateTable ==
    \E t \in Names, ci \in CreateInputs, drop \in BOOLEAN,
       key_name \in KeyNames, ordinal \in BOOLEAN :
        LET r == create_table(tables, ordinals, t, ci.cols, ci.types,
                              drop, key_name, ordinal)
        IN /\ tables' = r.db
           /\ ordinals' = r.ords
           /\ call' = [NoCall EXCEPT !.op = "create_table", !.table = t,
                          !.err = r.err, !.reported = ~check_types(ci.types),
                          !.drop = drop, !.ordinal = ordinal]
           /\ UNCHANGED filevars

DropTable ==
    \E t \in Names :
        /\ tables' = drop_table(tables, t)
        /\ call' = [NoCall EXCEPT !.op = "drop_table", !.table = t]
        /\ UNCHANGED ordinals
        /\ UNCHANGED filevars

GetNextOrdinal ==
    \E t \in Names :
        LET r == get_next_ordinal(tables, ordinals, t)
        IN /\ call' = [NoCall EXCEPT !.op = "get_next_ordinal", !.table = t,
                          !.err = r.err, !.ret = r.val]
           /\ UNCHANGED <<tables, ordinals>>
           /\ UNCHANGED filevars

\* Values a caller passes under a key that no table declares.
NoteValues == {IntV(1), RealV(3), TextV(1), NullV, OtherV}

Mappings ==
    { <<>>, <<Pair("name", TextV(1))>>, <<Pair("name", OtherV)>> }
    \cup { <<Pair("ordinal", IntV(k)), Pair("name", TextV(2))>> : k \in 1..MaxOrdinal }
    \cup { <<Pair("name", TextV(1)), Pair("note", v)>> : v \in NoteValues }
    \cup { <<Pair("ordinal", IntV(1)), Pair("name", TextV(2)), Pair("note", NullV)>> }

Lists ==
    { <<TextV(1)>>, <<IntV(2), TextV(1)>>, <<IntV(2), TextV(1), TextV(1)>> }

Batches ==
    { << <<IntV(1), TextV(2)>>, <<IntV(2), TextV(1)>> >>,
      << <<IntV(1), TextV(2)>>, <<IntV(2)>> >> }

RowInputs ==
    { [shape |-> "dict", data |-> m] : m \in Mappings }
    \cup { [shape |-> "list", data |-> l] : l \in Lists }
    \cup { [shape |-> "batch", data |-> b] : b \in Batches }
    \cup { [shape |-> "tuple", data |-> <<IntV(1), TextV(1)>>] }

AddRow ==
    \E t \in RowTables, in \in RowInputs, upper \in EngineBuilds :
        /\ Len(tables[t].rows) < MaxRows
        /\ LET r == add_row(upper, tables, ordinals, in.shape, in.data, t)
           IN /\ tables' = r.db
              /\ call' = [NoCall EXCEPT !.op = "add_row", !.table = t,
                             !.err = r.err, !.reported = r.reported,
                             !.shape = in.shape]
        /\ UNCHANGED ordinals
        /\ UNCHANGED filevars

Next ==
    \/ ToSql
    \/ CreateTable
    \/ DropTable
    \/ GetNextOrdinal
    \/ AddRow

Spec == Init /\ [][Next]_vars

\* ------------------------------------------- specification of the file store
\* A store constructed by the caller, on a clock that runs, with the calls
\* that reach rotate and export_csv.
Filenames == {Memory, FileName("ships")}

Intervals == {0, 1, RangeStart, RangeStop - 1, RangeStop, RangeStop + 1}

InitFile ==
    /\ tables = EmptyDb
    /\ ordinals = [t \in Names |-> NoSeed]
    /\ call = NoCall
    /\ store = NoStore
    /\ disk = NoFiles
    /\ now = 0
    /\ events = <<>>

Construct ==
    \E filename \in Filenames, db_rotation_time \in Intervals,
       row_factory \in BOOLEAN :
        LET r == init(filename, db_rotation_time, row_factory, now)
        IN /\ ~store.made
           /\ store' = r.store
           /\ tables' = Connect(disk, r.store.database)
           /\ call' = [NoCall EXCEPT !.op = "init", !.err = r.err]
           /\ events' = IF r.err = "none"
                         THEN << Event("self", "connect", r.store.database) >>
                         ELSE <<>>
           /\ UNCHANGED <<ordinals, disk, now>>

\* The clock moves on by a shortest window, or by one second less.
Tick ==
    \E d \in {RangeStart - 1, RangeStart} :
        /\ now + d <= MaxDays * RangeStart
        /\ now' = now + d
        /\ UNCHANGED <<tables, ordinals, call, store, disk, events>>

FileCreateTable ==
    \E t \in RowTables :
        LET r == create_table(tables, ordinals, t, <<"name">>, <<"text">>,
                              FALSE, "", TRUE)
        IN /\ store.made
           /\ tables' = r.db
           /\ ordinals' = r.ords
           /\ call' = [NoCall EXCEPT !.op = "create_table", !.table = t,
                          !.err = r.err, !.ordinal = TRUE]
           /\ events' = <<>>
           /\ UNCHANGED <<store, disk, now>>

Rotate ==
    \E upper \in EngineBuilds :
        \E r \in {rotate(upper, store, tables, ordinals, disk, now)} :
            /\ store.made
            /\ store' = r.store
            /\ tables' = r.db
            /\ ordinals' = r.ords
            /\ disk' = r.disk
            /\ events' = r.events
            /\ call' = [NoCall EXCEPT !.op = "rotate", !.err = r.err]
            /\ UNCHANGED now

\* add_row: rotate() first, then the insertion on whatever is connected.
FileAddRow ==
    \E t \in RowTables, upper \in EngineBuilds :
        \E rt \in {rotate(upper, store, tables, ordinals, disk, now)} :
            \E r \in {add_row(upper, rt.db, rt.ords, "dict",
                               <<Pair("name", TextV(1))>>, t)} :
                /\ store.made
                /\ Len(tables[t].rows) < MaxRows
                /\ store' = rt.store
                /\ disk' = rt.disk
                /\ events' = rt.events
                /\ ordinals' = rt.ords
                /\ IF rt.err # "none"
                   THEN /\ tables' = rt.db
                        /\ call' = [NoCall EXCEPT !.op = "add_row", !.table = t,
                                       !.err = rt.err, !.shape = "dict"]
                   ELSE /\ tables' = r.db
                        /\ call' = [NoCall EXCEPT !.op = "add_row", !.table = t,
                                       !.err = r.err, !.reported = r.reported,
                                       !.shape = "dict"]
                /\ UNCHANGED now

ExportCsv ==
    \E t \in RowTables, sql_filter \in Filters :
        LET r == export_csv(store, tables, sql_filter, t)
        IN /\ store.made
           /\ call' = [NoCall EXCEPT !.op = "export_csv", !.table = t,
                          !.err = r.err]
           /\ events' = <<>>
           /\ UNCHANGED <<tables, ordinals, store, disk, now>>

NextFile ==
    \/ Construct
    \/ Tick
    \/ FileCreateTable
    \/ Rotate
    \/ FileAddRow
    \/ ExportCsv

SpecFile == InitFile /\ [][NextFile]_vars

\* ================================================================ claims
\* Helpers of the properties below.
OrdinalIsPk(tb) == PkIndex(tb) > 0 /\ tb.cols[PkIndex(tb)].name = "ordinal"

OrdinalValues(tb) ==
    [i \in 1..Len(tb.rows) |-> tb.rows[i][ColIndex(tb, "ordinal")]]

\* The ordinals stored are 1, 2, ..., N in rowid (insertion) order.
Contiguous(tb) == \A i \in 1..Len(tb.rows) : OrdinalValues(tb)[i] = IntV(i)

\* A declared type and a reported type name the same type (case apart).
SameType(declared, reported) ==
    \E upper \in EngineBuilds : TableInfoType(upper, declared) = reported

Bindable(m) == \A i \in 1..Len(m) : m[i].val.k # "other"

\* Every row of old is still there, in place, with its old values.
RowsUntouched(old, new) ==
    /\ Len(new.rows) = Len(old.rows)
    /\ \A i \in 1..Len(old.rows) :
          SubSeq(new.rows[i], 1, Len(old.cols)) = old.rows[i]

ColumnsKept(old, new) ==
    /\ Len(new.cols) >= Len(old.cols)
    /\ SubSeq(new.cols, 1, Len(old.cols)) = old.cols

\* C1: on a table created with ordinal=true whose rows so far carry the
\* ordinals 1..n, add_row of a mapping without an 'ordinal' key leaves n+1
\* rows carrying 1..n+1 (so N such calls after creation leave 1..N).
C1_OrdinalsContiguous ==
    \A t \in RowTables, m \in Mappings :
        (OrdinalIsPk(tables[t]) /\ Contiguous(tables[t])
            /\ ~HasKey(m, "ordinal") /\ Bindable(m))
        => LET r == add_row_dict(tables, ordinals, m, t)
           IN /\ Len(r.db[t].rows) = Len(tables[t].rows) + 1
              /\ Contiguous(r.db[t])

\* C2: get_next_ordinal on a table with an 'ordinal' column returns the seed
\* when the table is empty and 1 + the largest stored ordinal otherwise; on a
\* table without an 'ordinal' column it raises.
C2_NextOrdinal ==
    \A t \in Names :
        LET r == get_next_ordinal(tables, ordinals, t)
            vals == OrdinalValues(tables[t])
        IN IF column_exists(tables, "ordinal", t)
           THEN /\ r.err = "none"
                /\ IF Len(vals) = 0
                   THEN ordinals[t] # NoSeed /\ r.val = IntV(ordinals[t])
                   ELSE \E i \in 1..Len(vals) :
                           /\ \A j \in 1..Len(vals) :
                                 OrderKey(vals[j]) <= OrderKey(vals[i])
                           /\ vals[i].k = "int"
                           /\ r.val = IntV(vals[i].n + 1)
           ELSE r.err = "Exception"

\* The schema a successful create_table is claimed to leave: the declared
\* columns in order, after a leading 'ordinal' integer when ordinal is set.
DeclaredNames(col_list, ordinal) ==
    IF ordinal THEN <<"ordinal">> \o col_list ELSE col_list

DeclaredTypes(type_list, ordinal) ==
    IF ordinal THEN <<"integer">> \o type_list ELSE type_list

HasDeclaredSchema(db, t, col_list, type_list, ordinal) ==
    /\ get_column_names(db, t) = DeclaredNames(col_list, ordinal)
    /\ Len(db[t].cols) = Len(DeclaredTypes(type_list, ordinal))
    /\ \A i \in 1..Len(db[t].cols) :
          SameType(DeclaredTypes(type_list, ordinal)[i], db[t].cols[i].type)

\* C3: create_table on a name that does not exist succeeds, for ordinal false
\* and true, and the table then has exactly the declared columns and types.
C3_CreateThenIntrospect ==
    \A t \in Names, ci \in CreateInputs, drop \in BOOLEAN, ordinal \in BOOLEAN :
        ~table_exists(tables, t)
        => LET r == create_table(tables, ordinals, t, ci.cols, ci.types,
                                 drop, "", ordinal)
           IN /\ r.err = "none"
              /\ HasDeclaredSchema(r.db, t, ci.cols, ci.types, ordinal)

\* C4: create_table(drop=true, ordinal=true) on a table the store created and
\* filled leaves a table with exactly the columns of this call and no rows.
C4_DropRecreates ==
    \A t \in Names, ci \in CreateInputs :
        (OrdinalIsPk(tables[t]) /\ Len(tables[t].rows) > 0
            /\ ~Contains(ci.cols, "ordinal"))
        => LET r == create_table(tables, ordinals, t, ci.cols, ci.types,
                                 TRUE, "", TRUE)
           IN /\ HasDeclaredSchema(r.db, t, ci.cols, ci.types, TRUE)
              /\ Len(r.db[t].rows) = 0

\* C5: a create_table call with drop=false on a table that exists raises, and
\* the step changes no table (columns and rows are as before).
C5_ExistingTableRefused ==
    [][ (call'.op = "create_table" /\ ~call'.drop
            /\ table_exists(tables, call'.table))
        => (call'.err = "Exception" /\ tables' = tables) ]_vars

C5_Witness ==
    /\ call.op = "create_table"
    /\ ~call.drop
    /\ call.err = "Exception"
    /\ Len(tables[call.table].rows) > 0

\* The columns of col_list the live schema of t lacks, in list order.
MissingColumns(db, t, col_list) ==
    SelectSeq(col_list, LAMBDA c : ~column_exists(db, c, t))

\* C6 as stated: create_table with drop=false on an existing table does not
\* raise; it adds the columns of the call that the schema lacks and leaves
\* the rows untouched.
C6_AdditiveWithoutDrop ==
    \A t \in Names, ci \in CreateInputs, ordinal \in BOOLEAN :
        table_exists(tables, t)
        => LET r == create_table(tables, ordinals, t, ci.cols, ci.types,
                                 FALSE, "", ordinal)
           IN /\ r.err = "none"
              /\ get_column_names(r.db, t)
                    = get_column_names(tables, t)
                         \o MissingColumns(tables, t, ci.cols)
              /\ RowsUntouched(tables[t], r.db[t])

\* C6 amended: create_table with drop=false on an existing table raises and
\* adds none of the call's columns, whichever of them the live schema lacks;
\* the rows are untouched.
C6_NoMigrationWithoutDrop ==
    \A t \in Names, ci \in CreateInputs, key_name \in KeyNames,
       ordinal \in BOOLEAN :
        table_exists(tables, t)
        => LET r == create_table(tables, ordinals, t, ci.cols, ci.types,
                                 FALSE, key_name, ordinal)
           IN /\ r.err = "Exception"
              /\ get_column_names(r.db, t) = get_column_names(tables, t)
              /\ RowsUntouched(tables[t], r.db[t])

\* A refused call on a table that lacks the 'ordinal' column the call asks for.
C6_Witness ==
    /\ call.op = "create_table"
    /\ ~call.drop
    /\ call.ordinal
    /\ call.err = "Exception"
    /\ ~column_exists(tables, "ordinal", call.table)

\* The column type C7 claims for a value passed under an undeclared key
\* ("" stands for a column declared without a type).
ClaimedType(v) ==
    CASE v.k = "int"  -> "integer"
      [] v.k = "real" -> "real"
      [] v.k \in {"text", "inttext", "realtext"} -> "text"
      [] OTHER        -> ""

\* C7: on a table the store created, add_row of a mapping with a key the
\* schema lacks does not fail; the key
\* becomes a column of the type claimed for its value, after the columns that
\* were there, which keep their names, types and order.
C7_UndeclaredKeyAddsColumn ==
    \A t \in RowTables, m \in Mappings :
        (OrdinalIsPk(tables[t])
            /\ \E i \in 1..Len(m) : ~column_exists(tables, m[i].key, t))
        => LET r == add_row_dict(tables, ordinals, m, t)
           IN /\ r.err = "none"
              /\ ColumnsKept(tables[t], r.db[t])
              /\ \A i \in 1..Len(m) :
                    ~column_exists(tables, m[i].key, t)
                    => /\ column_exists(r.db, m[i].key, t)
                       /\ SameType(ClaimedType(m[i].val),
                             r.db[t].cols[ColIndex(r.db[t], m[i].key)].type)

\* C8: add_row of a mapping of declared keys that lacks some declared column
\* (other than 'ordinal', which is assigned) stores the row, with '' in every
\* column the mapping lacks - with or without an 'ordinal' column.
C8_MissingColumnsEmptyText ==
    \A t \in RowTables, m \in Mappings :
        LET old == tables[t]
            missing == {i \in 1..Len(old.cols) :
                           old.cols[i].name # "ordinal" /\ ~HasKey(m, old.cols[i].name)}
        IN (table_exists(tables, t) /\ Bindable(m) /\ missing # {}
               /\ \A i \in 1..Len(m) : column_exists(tables, m[i].key, t))
           => LET r == add_row_dict(tables, ordinals, m, t)
                  new == r.db[t]
              IN /\ r.err = "none"
                 /\ ~r.reported
                 /\ \E j \in 1..Len(new.rows) :
                       /\ \A i \in missing : new.rows[j][i] = EmptyText
                       /\ \A i \in 1..Len(old.cols) :
                             HasKey(m, old.cols[i].name)
                             => new.rows[j][i] = Coerce(Affinity(old.cols[i].type),
                                                        Get(m, old.cols[i].name))

\* C9: on a table whose primary key is 'ordinal', add_row of a mapping with an
\* 'ordinal' already stored replaces that row and keeps the row count and all
\* other rows; with an 'ordinal' not stored yet it adds exactly one row.
C9_UpsertByOrdinal ==
    \A t \in RowTables, m \in Mappings :
        (OrdinalIsPk(tables[t]) /\ HasKey(m, "ordinal") /\ Bindable(m))
        => LET r == add_row_dict(tables, ordinals, m, t)
               old == tables[t]
               new == r.db[t]
               key == Get(m, "ordinal")
               present == \E i \in 1..Len(old.rows) : OrdinalValues(old)[i] = key
           IN /\ Len(new.rows) = Len(old.rows) + (IF present THEN 0 ELSE 1)
              /\ \A i \in 1..Len(old.rows) :
                    OrdinalValues(old)[i] # key
                    => \E j \in 1..Len(new.rows) :
                          SubSeq(new.rows[j], 1, Len(old.cols)) = old.rows[i]
              /\ \E j \in 1..Len(new.rows) :
                    /\ OrdinalValues(new)[j] = key
                    /\ new.rows[j][ColIndex(new, "name")]
                          = Coerce(Affinity(new.cols[ColIndex(new, "name")].type),
                                   Get(m, "name"))

EngineErrors == {"OperationalError", "ProgrammingError", "IntegrityError"}

\* C10: on a table the store created, for a mapping, a positional sequence
\* and a batch of tuples alike, no insertion failure of the engine leaves
\* add_row as an exception, and a
\* reported failure leaves the rows stored before the call as they were.
C10_InsertFailuresCaught ==
    \A t \in RowTables, in \in RowInputs, upper \in EngineBuilds :
        (OrdinalIsPk(tables[t]) /\ in.shape \in {"dict", "list", "batch"})
        => LET r == add_row(upper, tables, ordinals, in.shape, in.data, t)
           IN /\ r.err \notin EngineErrors
              /\ r.reported => RowsUntouched(tables[t], r.db[t])

\* C11: construction succeeds exactly when the interval is 0, or lies in
\* 86400..1209600 (both ends included) on a store that is not ':memory:';
\* every other combination raises the configuration error and leaves no store.
C11_ConstructionValidated ==
    \A filename \in Filenames, t \in Intervals, row_factory \in BOOLEAN :
        \A r \in {init(filename, t, row_factory, now)} :
            LET valid == \/ t = 0
                         \/ /\ t >= RangeStart /\ t <= RangeStop
                            /\ filename # Memory
            IN /\ (r.err = "none") <=> valid
               /\ r.err = "none" => r.store.made
               /\ r.err # "none" => (r.err = "ValueError" /\ r.store = NoStore)

\* The window of a file-backed store with an interval has ended.
WindowEnded ==
    /\ store.made
    /\ store.base_filename # Memory
    /\ store.rotation_interval # 0
    /\ store.start_time # <<>>
    /\ check_time(store, now)

\* C12: when the window of a file-backed store holding tables has ended,
\* rotate() completes; the store is then connected to the new file, which has
\* the same tables with the same column names, types and primary key.
C12_RotationRecreatesSchema ==
    \A upper \in EngineBuilds :
        (WindowEnded /\ get_tables(tables) # {})
        => \A r \in {rotate(upper, store, tables, ordinals, disk, now)} :
              /\ r.err = "none"
              /\ r.store.database
                    = Stamped(store.base_filename,
                              store.start_time[1] + store.rotation_interval)
              /\ get_tables(r.db) = get_tables(tables)
              /\ \A t \in get_tables(tables) :
                    /\ get_column_names(r.db, t) = get_column_names(tables, t)
                    /\ get_column_types(upper, r.db, t)
                          = get_column_types(upper, tables, t)
                    /\ get_pk_name(r.db, t) = get_pk_name(tables, t)

\* The largest number of connections of the store itself open at once while
\* the events evs happen, n being open before them.
RECURSIVE PeakOpen(_, _, _)
PeakOpen(evs, n, i) ==
    IF i > Len(evs) THEN n
    ELSE LET n1 == IF evs[i].of # "self" THEN n
                   ELSE IF evs[i].op = "connect" THEN n + 1
                   ELSE IF evs[i].op = "close" THEN n - 1
                   ELSE n
             rest == PeakOpen(evs, n1, i + 1)
         IN IF n > rest THEN n ELSE rest

\* evs commits and closes the connection to old, then connects to new.
SwitchedInOrder(evs, old, new) ==
    \E i, j, k \in 1..Len(evs) :
        /\ i < j /\ j < k
        /\ evs[i] = Event("self", "commit", old)
        /\ evs[j] = Event("self", "close", old)
        /\ evs[k] = Event("self", "connect", new)

C14_EmptyExportSilent ==
    \A t \in Names, sql_filter \in Filters :
        \A sel \in {select_rows(tables, sql_filter, t)} :
            (store.made /\ sel.err = "none" /\ Len(sel.rows) = 0)
            => \A r \in {export_csv(store, tables, sql_filter, t)} :
                  /\ r.err = "none"
                  /\ r.lines = <<>>

\* C15: on a table whose primary key is 'ordinal', add_row writes the ordinal
\* it assigns into the caller's mapping, so a second and a third call with
\* the same mapping replace the row of the first: after each of the calls the
\* table holds exactly one row more than before the first.
C15_SharedMappingOneRow ==
    \A t \in RowTables, m \in Mappings :
        (OrdinalIsPk(tables[t]) /\ ~HasKey(m, "ordinal") /\ Bindable(m))
        => LET r1 == add_row_dict(tables, ordinals, m, t)
               r2 == add_row_dict(r1.db, ordinals, r1.after, t)
               r3 == add_row_dict(r2.db, ordinals, r2.after, t)
           IN /\ HasKey(r1.after, "ordinal")
              /\ Get(r2.after, "ordinal") = Get(r1.after, "ordinal")
              /\ Len(r1.db[t].rows) = Len(tables[t].rows) + 1
              /\ Len(r2.db[t].rows) = Len(tables[t].rows) + 1
              /\ Len(r3.db[t].rows) = Len(tables[t].rows) + 1

====
